---- MODULE Spec2Model ----
(***************************************************************************)
(* SecurityAnalyzer of swiftsc-analyzer (src/src/security.rs).             *)
(*                                                                         *)
(* The analyzer walks a parsed Program and appends SecurityWarning values  *)
(* to self.warnings.  The recursive descent of analyze_block /             *)
(* analyze_statement / analyze_expression is modelled with an explicit     *)
(* work stack: one step visits the node on top of the stack, performs the  *)
(* node's own checks and pushes the node's children in the order the code  *)
(* recurses into them.                                                     *)
(***************************************************************************)
EXTENDS Integers, Sequences, FiniteSets, TLC

(***************************************************************************)
(* Bounds of the explored inputs.                                          *)
(***************************************************************************)
MaxStmts == 2
MaxMembers == 3
MaxItems == 2
MaxRuns == 2

(***************************************************************************)
(* The AST of swiftsc_frontend::ast, as far as security.rs reads it.       *)
(* Every node is a record of one shape: kind, name (identifier or field    *)
(* name), op (binary operator), kids (child expressions) and blocks (child *)
(* statement lists).                                                       *)
(***************************************************************************)
Node(k, n, o, ks, bs) ==
    [kind |-> k, name |-> n, op |-> o, kids |-> ks, blocks |-> bs]

Identifier(n) == Node("Identifier", n, "", <<>>, <<>>)
Literal == Node("Literal", "", "", <<>>, <<>>)
FieldAccess(obj, field) == Node("FieldAccess", field, "", <<obj>>, <<>>)
Binary(left, o, right) == Node("Binary", "", o, <<left, right>>, <<>>)
Call(func, args) == Node("Call", "", "", <<func>> \o args, <<>>)
Index(obj, index) == Node("Index", "", "", <<obj, index>>, <<>>)
\* a Match is its scrutinee followed by the bodies of its arms
Match(value, arms) == Node("Match", "", "", <<value>> \o arms, <<>>)
StructInit(fields) == Node("StructInit", "", "", fields, <<>>)
Try(e) == Node("Try", "", "", <<e>>, <<>>)
GenericInst(target) == Node("GenericInst", "", "", <<target>>, <<>>)
\* an expression kind the visitor has no arm for (it keeps its operand)
Unary(e) == Node("Unary", "", "", <<e>>, <<>>)

Let(init) == Node("Let", "", "", <<init>>, <<>>)
Expr(e) == Node("Expr", "", "", <<e>>, <<>>)
\* Return(<<>>) is Return(None), Return(<<e>>) is Return(Some(e))
Return(opt) == Node("Return", "", "", opt, <<>>)
\* If(c, t, <<>>) has no else branch, If(c, t, <<e>>) has else branch e
If(condition, then_branch, else_opt) ==
    Node("If", "", "", <<condition>>, <<then_branch>> \o else_opt)
While(condition, body) == Node("While", "", "", <<condition>>, <<body>>)
For(start, end, body) == Node("For", "", "", <<start, end>>, <<body>>)
\* a statement kind the visitor has no arm for
Break == Node("Break", "", "", <<>>, <<>>)

Function(n, b) == [name |-> n, body |-> b]
NoFunction == Function(<<>>, <<>>)

StorageMember(fs) == [kind |-> "Storage", fields |-> fs, func |-> NoFunction]
InitMember(f) == [kind |-> "Init", fields |-> <<>>, func |-> f]
FunctionMember(f) == [kind |-> "Function", fields |-> <<>>, func |-> f]
OtherMember == [kind |-> "Other", fields |-> <<>>, func |-> NoFunction]

ContractItem(ms) == [kind |-> "Contract", members |-> ms, func |-> NoFunction]
FunctionItem(f) == [kind |-> "Function", members |-> <<>>, func |-> f]
OtherItem == [kind |-> "Other", members |-> <<>>, func |-> NoFunction]

(***************************************************************************)
(* Option<String>: None is the empty sequence, Some(s) the sequence <<s>>. *)
(* A function name is the sequence of its characters.                      *)
(***************************************************************************)
None == <<>>
Some(s) == <<s>>

starts_with(s, prefix) ==
    /\ Len(s) >= Len(prefix)
    /\ SubSeq(s, 1, Len(prefix)) = prefix

checked_ == <<"c", "h", "e", "c", "k", "e", "d", "_">>
safe_ == <<"s", "a", "f", "e", "_">>

(***************************************************************************)
(* Spans.  A node's span is its position in the tree: the path of child    *)
(* indices from the program's item list.  Span::new(1, 1) is the default   *)
(* the code uses for an empty constructor body.                            *)
(***************************************************************************)
DefaultSpan == <<1, 1>>

(***************************************************************************)
(* SecurityWarning values.                                                 *)
(***************************************************************************)
UninitializedVariable(field, span) ==
    [kind |-> "UninitializedVariable",
     payload |-> <<"Storage field '", field, "'">>,
     span |-> span]
UncheckedArithmetic(o, span) ==
    [kind |-> "UncheckedArithmetic", payload |-> <<o>>, span |-> span]
PotentialReentrancy(span) ==
    [kind |-> "PotentialReentrancy",
     payload |-> <<"Detected state modification after potential external call">>,
     span |-> span]

(***************************************************************************)
(* The analyzer's fields as one value, for the operators below.            *)
(***************************************************************************)
new ==
    [warnings |-> <<>>, external_call_seen |-> FALSE, current_function |-> None]

push(a, w) == [a EXCEPT !.warnings = Append(@, w)]

(***************************************************************************)
(* analyze_expression: the checks a node performs on itself, before the    *)
(* visitor recurses into its children.                                     *)
(***************************************************************************)
\* Binary: the reentrancy check
reentrancy_check(a, expr, span) ==
    LET left == expr.kids[1]
    IN  IF /\ expr.op = "Assign"
           /\ a.external_call_seen
           /\ left.kind = "FieldAccess"
           /\ left.kids[1].kind = "Identifier"
           /\ left.kids[1].name = "self"
        THEN push(a, PotentialReentrancy(span))
        ELSE a

\* a variant that knows the `checked_` prefix only
is_safe_context_checked_only(a) ==
    IF a.current_function = None
    THEN FALSE
    ELSE starts_with(a.current_function[1], checked_)

is_safe_context(a) ==
    IF a.current_function = None
    THEN FALSE
    ELSE \/ starts_with(a.current_function[1], checked_)
         \/ starts_with(a.current_function[1], safe_)

\* Binary: the arithmetic check; format!("{:?}", op) is the variant's name
arithmetic_check(a, expr, span) ==
    IF expr.op \in {"Add", "Sub", "Mul"} /\ ~is_safe_context(a)
    THEN push(a, UncheckedArithmetic(expr.op, span))
    ELSE a

\* a variant that takes a call on the receiver for an external call too
external_call_check_any_identifier(a, expr) ==
    LET func == expr.kids[1]
    IN  IF /\ func.kind = "FieldAccess"
           /\ func.kids[1].kind = "Identifier"
        THEN [a EXCEPT !.external_call_seen = TRUE]
        ELSE a

\* Call: the flag update
external_call_check(a, expr) ==
    LET func == expr.kids[1]
    IN  IF /\ func.kind = "FieldAccess"
           /\ func.kids[1].kind = "Identifier"
           /\ func.kids[1].name # "self"
        THEN [a EXCEPT !.external_call_seen = TRUE]
        ELSE a

analyze_expression(a, expr, span) ==
    CASE expr.kind = "Binary" ->
            arithmetic_check(reentrancy_check(a, expr, span), expr, span)
      [] expr.kind = "Call" -> external_call_check(a, expr)
      [] OTHER -> a

(***************************************************************************)
(* The work the visitor recurses into, in the order the code does.         *)
(***************************************************************************)
VisitedExpressionKinds ==
    {"Binary", "Call", "FieldAccess", "Index", "Match", "StructInit", "Try",
     "GenericInst"}
StatementKinds == {"Let", "Expr", "Return", "If", "While", "For", "Break"}

WorkItems(nodes, span) ==
    [i \in 1..Len(nodes) |-> [node |-> nodes[i], span |-> span \o <<i>>]]

\* the child expressions analyze_expression calls itself on
expression_children(expr, span) ==
    IF expr.kind \in VisitedExpressionKinds
    THEN WorkItems(expr.kids, span)
    ELSE <<>>

\* analyze_block: the statements of a block, left to right
analyze_block(block, span) == WorkItems(block, span)

\* analyze_statement: the expressions, then the blocks, of a statement
analyze_statement(stmt, span) ==
    LET blk(b) == analyze_block(stmt.blocks[b], span \o <<Len(stmt.kids) + b>>)
    IN  CASE stmt.kind \in {"Let", "Expr", "Return"} ->
                WorkItems(stmt.kids, span)
          [] stmt.kind \in {"If", "While", "For"} ->
                WorkItems(stmt.kids, span)
                    \o (IF Len(stmt.blocks) = 2 THEN blk(1) \o blk(2) ELSE blk(1))
          [] OTHER -> <<>>

(***************************************************************************)
(* analyze_function: entry and exit.                                       *)
(***************************************************************************)
\* a variant that does not reset the reentrancy flag
enter_function_keeping_flag(a, func) ==
    [a EXCEPT !.current_function = Some(func.name)]

enter_function(a, func) ==
    [a EXCEPT !.external_call_seen = FALSE,
              !.current_function = Some(func.name)]

exit_function(a) == [a EXCEPT !.current_function = None]

\* the traversal of the pending work, to its end
RECURSIVE traverse(_, _)
traverse(a, work) ==
    IF work = <<>>
    THEN a
    ELSE LET next == Head(work)
         IN  IF next.node.kind \in StatementKinds
             THEN traverse(a, analyze_statement(next.node, next.span)
                                  \o Tail(work))
             ELSE traverse(analyze_expression(a, next.node, next.span),
                           expression_children(next.node, next.span)
                               \o Tail(work))

\* one whole analyze_function call
analyze_function(a, func, span) ==
    exit_function(traverse(enter_function(a, func),
                           analyze_block(func.body, span)))

(***************************************************************************)
(* analyze_contract.                                                       *)
(***************************************************************************)
\* the first loop: the names of the fields of every Storage member
storage_fields_of(contract) ==
    UNION {{contract.members[j].fields[i] :
                i \in 1..Len(contract.members[j].fields)} :
              j \in {j \in 1..Len(contract.members) :
                        contract.members[j].kind = "Storage"}}

\* a variant that also looks into the blocks of the top-level statements
collect_initializations_nested(block) ==
    LET assigned(stmts) ==
            {stmts[k].kids[1].kids[1].name :
                k \in {k \in 1..Len(stmts) :
                          /\ stmts[k].kind = "Expr"
                          /\ stmts[k].kids[1].kind = "Binary"
                          /\ stmts[k].kids[1].op = "Assign"
                          /\ stmts[k].kids[1].kids[1].kind = "FieldAccess"
                          /\ stmts[k].kids[1].kids[1].kids[1].kind = "Identifier"
                          /\ stmts[k].kids[1].kids[1].kids[1].name = "self"}}
    IN  assigned(block)
            \cup UNION {UNION {assigned(block[k].blocks[b]) :
                                  b \in 1..Len(block[k].blocks)} :
                           k \in 1..Len(block)}

\* the fields the top-level statements `self.<field> = <anything>` assign
collect_initializations(block) ==
    {block[k].kids[1].kids[1].name :
        k \in {k \in 1..Len(block) :
                  /\ block[k].kind = "Expr"
                  /\ block[k].kids[1].kind = "Binary"
                  /\ block[k].kids[1].op = "Assign"
                  /\ block[k].kids[1].kids[1].kind = "FieldAccess"
                  /\ block[k].kids[1].kids[1].kids[1].kind = "Identifier"
                  /\ block[k].kids[1].kids[1].kids[1].name = "self"}}

\* The orders in which `for field in &storage_fields` may iterate the
\* HashSet: std's HashSet (RandomState) fixes no iteration order.
iter(set) ==
    {order \in [1..Cardinality(set) -> set] :
        \A i, j \in 1..Cardinality(set) : order[i] = order[j] => i = j}

\* the span of an Init member's warnings: the first statement of the body
init_span(func, span) ==
    IF func.body # <<>> THEN span \o <<1>> ELSE DefaultSpan

\* a variant that also passes the constructor to analyze_function
analyze_init_visiting_body(a, func, order, span) ==
    LET initialized == collect_initializations(func.body)
        missing == SelectSeq(order, LAMBDA field : field \notin initialized)
        checked ==
            [a EXCEPT !.warnings =
                @ \o [i \in 1..Len(missing) |->
                         UninitializedVariable(missing[i], init_span(func, span))]]
    IN  analyze_function(checked, func, span)

\* the handling of an Init member, iterating the field set in `order`
analyze_init(a, func, order, span) ==
    LET initialized == collect_initializations(func.body)
        missing == SelectSeq(order, LAMBDA field : field \notin initialized)
    IN  [a EXCEPT !.warnings =
            @ \o [i \in 1..Len(missing) |->
                     UninitializedVariable(missing[i], init_span(func, span))]]

\* the second loop's iteration over the members
members_of(contract) == contract.members

\* one whole analyze_contract call on each analyzer of `as`, for every
\* iteration order of the field set
RECURSIVE analyze_members(_, _, _, _)
analyze_members(as, contract, i, j) ==
    IF j > Len(members_of(contract))
    THEN as
    ELSE LET m == members_of(contract)[j]
             after ==
                 CASE m.kind = "Init" ->
                         {analyze_init(a, m.func, order, <<i, j>>) :
                             a \in as, order \in iter(storage_fields_of(contract))}
                   [] m.kind = "Function" ->
                         {analyze_function(a, m.func, <<i, j>>) : a \in as}
                   [] OTHER -> as
         IN  analyze_members(after, contract, i, j + 1)

analyze_contract(as, contract, i) == analyze_members(as, contract, i, 1)

\* one whole analyze_program call on each analyzer of `as`
RECURSIVE analyze_items(_, _, _)
analyze_items(as, prog, i) ==
    IF i > Len(prog)
    THEN as
    ELSE LET after ==
                 CASE prog[i].kind = "Contract" ->
                         analyze_contract(as, prog[i], i)
                   [] prog[i].kind = "Function" ->
                         {analyze_function(a, prog[i].func, <<i>>) : a \in as}
                   [] OTHER -> as
         IN  analyze_items(after, prog, i + 1)

analyze_program(as, prog) == analyze_items(as, prog, 1)

(***************************************************************************)
(* The programs explored.                                                  *)
(***************************************************************************)
SeqsUpTo(S, n) == UNION {[1..k -> S] : k \in 0..n}

e_self == Identifier("self")
e_other == Identifier("other")
e_x == Identifier("x")
self_balance == FieldAccess(e_self, "balance")
self_owner == FieldAccess(e_self, "owner")
other_balance == FieldAccess(e_other, "balance")
other_call == FieldAccess(e_other, "call")
self_helper == FieldAccess(e_self, "helper")
self_token_transfer == FieldAccess(FieldAccess(e_self, "token"), "transfer")
a_b_call == FieldAccess(FieldAccess(Identifier("a"), "b"), "call")
indexed_call == FieldAccess(Index(e_x, Literal), "call")
result_call == FieldAccess(Call(e_x, <<>>), "call")

Assign(left, right) == Binary(left, "Assign", right)
x_plus_y == Binary(e_x, "Add", Identifier("y"))
ExternalCall == Call(other_call, <<>>)
SetBalance == Expr(Assign(self_balance, Literal))
AddBalance == Expr(Assign(self_balance, Binary(self_balance, "Add", e_x)))

\* statements combined freely into bodies of up to MaxStmts statements
CoreStmts ==
    {Expr(ExternalCall),
     SetBalance,
     AddBalance,
     Expr(Call(self_token_transfer, <<>>)),
     Expr(Call(self_helper, <<>>)),
     If(e_x, <<Expr(ExternalCall)>>, <<<<Expr(Assign(self_owner, Literal))>>>>)}

\* statements explored alone and followed by `self.balance = <literal>`
ExtraStmts ==
    {Expr(Assign(self_balance, ExternalCall)),
     Expr(Binary(ExternalCall, "Eq", Assign(self_balance, Literal))),
     Expr(Binary(Assign(self_balance, Literal), "Eq", ExternalCall)),
     Expr(Call(other_call, <<Assign(self_balance, Literal)>>)),
     Expr(Call(e_x, <<x_plus_y>>)),
     Expr(Call(a_b_call, <<>>)),
     Expr(Call(indexed_call, <<>>)),
     Expr(Call(result_call, <<>>)),
     Expr(Assign(other_balance, Binary(e_x, "Div", e_x))),
     Expr(Assign(e_x, Literal)),
     Expr(Try(ExternalCall)),
     Expr(Match(e_x, <<ExternalCall, Assign(self_balance, x_plus_y)>>)),
     Expr(StructInit(<<x_plus_y, ExternalCall>>)),
     Expr(GenericInst(other_call)),
     Expr(Index(e_x, Binary(e_x, "Mul", e_x))),
     Expr(Unary(Binary(e_x, "Sub", ExternalCall))),
     Let(Binary(e_x, "Sub", Literal)),
     Return(<<Binary(e_x, "Mul", x_plus_y)>>),
     Return(<<>>),
     Break,
     If(ExternalCall, <<Expr(Assign(other_balance, Literal))>>, <<>>),
     While(e_x, <<Expr(ExternalCall), SetBalance>>),
     For(Literal, ExternalCall, <<AddBalance>>)}

Bodies ==
    SeqsUpTo(CoreStmts, MaxStmts)
        \cup {<<s>> : s \in ExtraStmts}
        \cup {<<s, SetBalance>> : s \in ExtraStmts}

n_transfer == <<"t", "r", "a", "n", "s", "f", "e", "r">>
n_init == <<"i", "n", "i", "t">>
ArithNames ==
    {<<"a", "d", "d">>,
     checked_ \o <<"a", "d", "d">>,
     safe_ \o <<"a", "d", "d">>,
     <<"s", "a", "f", "e", "r">>,
     <<"u", "n">> \o checked_,
     <<"c", "h", "e", "c", "k", "e", "d">>}

Functions ==
    {Function(n_transfer, b) : b \in Bodies}
        \cup {Function(n, <<Expr(x_plus_y)>>) : n \in ArithNames}

\* constructor bodies
InitBodies ==
    {<<>>,
     <<SetBalance>>,
     <<SetBalance, Expr(Assign(self_owner, Literal))>>,
     <<AddBalance>>,
     <<Expr(ExternalCall), SetBalance, AddBalance>>,
     <<If(e_x, <<SetBalance>>, <<>>)>>,
     <<While(e_x, <<SetBalance>>), For(e_x, e_x, <<SetBalance>>)>>,
     <<Let(Assign(self_balance, Literal))>>,
     <<Expr(Assign(other_balance, Literal)), Expr(Assign(e_x, Literal))>>,
     <<Expr(Assign(FieldAccess(self_owner, "balance"), Literal))>>,
     <<Expr(Binary(self_balance, "Eq", Literal))>>}

Storage1 == StorageMember(<<"balance", "owner">>)
Storage2 == StorageMember(<<"owner">>)
Storage3 == StorageMember(<<"total", "owner">>)
f_withdraw == Function(<<"w">>, <<Expr(ExternalCall), AddBalance>>)
f_safe_add == Function(safe_ \o <<"a", "d", "d">>, <<AddBalance>>)

\* members combined freely into contracts of up to MaxMembers members
CoreMembers ==
    {Storage1, Storage2,
     InitMember(Function(n_init, <<>>)),
     InitMember(Function(n_init, <<Expr(ExternalCall), SetBalance, AddBalance>>)),
     FunctionMember(f_withdraw),
     FunctionMember(f_safe_add),
     OtherMember}

Contracts ==
    {ContractItem(ms) : ms \in SeqsUpTo(CoreMembers, MaxMembers)}
        \cup {ContractItem(<<Storage1, InitMember(Function(n_init, b))>>) :
                 b \in InitBodies}
        \cup {ContractItem(<<InitMember(Function(n_init, b)), Storage3,
                             FunctionMember(f_withdraw), Storage1>>) :
                 b \in InitBodies}

\* items combined freely into programs of up to MaxItems items
CoreItems ==
    {FunctionItem(Function(n_transfer, <<SetBalance, Expr(ExternalCall)>>)),
     FunctionItem(Function(n_transfer, <<SetBalance>>)),
     FunctionItem(Function(checked_ \o <<"a", "d", "d">>, <<Expr(x_plus_y)>>)),
     FunctionItem(Function(<<"a", "d", "d">>, <<Expr(x_plus_y)>>)),
     ContractItem(<<Storage1, InitMember(Function(n_init, <<SetBalance>>)),
                    FunctionMember(f_withdraw)>>),
     OtherItem}

Programs ==
    SeqsUpTo(CoreItems, MaxItems)
        \cup {<<FunctionItem(f)>> : f \in Functions}
        \cup {<<c>> : c \in Contracts}

(***************************************************************************)
(* The state: the analyzer's fields, the program passed to                 *)
(* analyze_program, and the position of the traversal.                     *)
(***************************************************************************)
VARIABLES
    program,             \* the Program every analyze_program call is given
    warnings,            \* self.warnings
    external_call_seen,  \* self.external_call_seen
    current_function,    \* self.current_function
    pc,                  \* the function the traversal is in
    item,                \* analyze_program's position in program.items
    member,              \* analyze_contract's position in contract.members
    storage_fields,      \* analyze_contract's local storage_fields
    stack,               \* the pending analyze_statement/analyze_expression calls
    runs,                \* the analyze_program calls made so far
    trace,               \* history: the expressions visited in this function
    function_start,      \* history: Len(warnings) when this function started
    contract_start,      \* history: Len(warnings) when this contract started
    run_start            \* history: Len(warnings) when this run started

vars ==
    <<program, warnings, external_call_seen, current_function, pc, item,
      member, storage_fields, stack, runs, trace, function_start,
      contract_start, run_start>>

analyzer ==
    [warnings |-> warnings, external_call_seen |-> external_call_seen,
     current_function |-> current_function]

Store(a) ==
    /\ warnings' = a.warnings
    /\ external_call_seen' = a.external_call_seen
    /\ current_function' = a.current_function

Init ==
    /\ program \in Programs
    /\ warnings = new.warnings
    /\ external_call_seen = new.external_call_seen
    /\ current_function = new.current_function
    /\ pc = "idle"
    /\ item = 0
    /\ member = 0
    /\ storage_fields = {}
    /\ stack = <<>>
    /\ runs = 0
    /\ trace = <<>>
    /\ function_start = 0
    /\ contract_start = 0
    /\ run_start = 0

(***************************************************************************)
(* analyze_program: the loop over program.items.                           *)
(***************************************************************************)
CurrentItem == program[item]
CurrentMember == members_of(CurrentItem)[member]
\* the function being traversed, and the span of its body
CurrentFunction ==
    IF member = 0 THEN CurrentItem.func ELSE CurrentMember.func
CurrentSpan == IF member = 0 THEN <<item>> ELSE <<item, member>>

\* a caller invokes analyze_program(&program) on the instance
CallAnalyzeProgram ==
    /\ pc = "idle"
    /\ runs < MaxRuns
    /\ pc' = "analyze_program"
    /\ item' = 1
    /\ runs' = runs + 1
    /\ run_start' = Len(warnings)
    /\ UNCHANGED <<program, warnings, external_call_seen, current_function,
                   member, storage_fields, stack, trace, function_start,
                   contract_start>>

\* Item::Contract: analyze_contract starts; its first loop fills storage_fields
ItemContract ==
    /\ pc = "analyze_program"
    /\ item <= Len(program)
    /\ CurrentItem.kind = "Contract"
    /\ pc' = "analyze_contract"
    /\ storage_fields' = storage_fields_of(CurrentItem)
    /\ member' = 1
    /\ contract_start' = Len(warnings)
    /\ UNCHANGED <<program, warnings, external_call_seen, current_function,
                   item, stack, runs, trace, function_start, run_start>>

\* Item::Function: analyze_function starts
ItemFunction ==
    /\ pc = "analyze_program"
    /\ item <= Len(program)
    /\ CurrentItem.kind = "Function"
    /\ pc' = "analyze_function"
    /\ Store(enter_function(analyzer, CurrentItem.func))
    /\ stack' = analyze_block(CurrentItem.func.body, <<item>>)
    /\ trace' = <<>>
    /\ function_start' = Len(warnings)
    /\ UNCHANGED <<program, item, member, storage_fields, runs,
                   contract_start, run_start>>

\* any other item is skipped
ItemOther ==
    /\ pc = "analyze_program"
    /\ item <= Len(program)
    /\ CurrentItem.kind \notin {"Contract", "Function"}
    /\ item' = item + 1
    /\ UNCHANGED <<program, warnings, external_call_seen, current_function,
                   pc, member, storage_fields, stack, runs, trace,
                   function_start, contract_start, run_start>>

\* the loop is over: analyze_program returns
ReturnFromAnalyzeProgram ==
    /\ pc = "analyze_program"
    /\ item > Len(program)
    /\ pc' = "idle"
    /\ item' = 0
    /\ UNCHANGED <<program, warnings, external_call_seen, current_function,
                   member, storage_fields, stack, runs, trace,
                   function_start, contract_start, run_start>>

(***************************************************************************)
(* analyze_contract: the second loop over contract.members.                *)
(***************************************************************************)
\* ContractMember::Init: the initialization check of the constructor
MemberInit ==
    /\ pc = "analyze_contract"
    /\ member <= Len(members_of(CurrentItem))
    /\ CurrentMember.kind = "Init"
    /\ \E order \in iter(storage_fields) :
          Store(analyze_init(analyzer, CurrentMember.func, order,
                             <<item, member>>))
    /\ member' = member + 1
    /\ UNCHANGED <<program, pc, item, storage_fields, stack, runs, trace,
                   function_start, contract_start, run_start>>

\* ContractMember::Function: analyze_function starts
MemberFunction ==
    /\ pc = "analyze_contract"
    /\ member <= Len(members_of(CurrentItem))
    /\ CurrentMember.kind = "Function"
    /\ pc' = "analyze_function"
    /\ Store(enter_function(analyzer, CurrentMember.func))
    /\ stack' = analyze_block(CurrentMember.func.body, <<item, member>>)
    /\ trace' = <<>>
    /\ function_start' = Len(warnings)
    /\ UNCHANGED <<program, item, member, storage_fields, runs,
                   contract_start, run_start>>

\* Storage members and other members are skipped by the second loop
MemberOther ==
    /\ pc = "analyze_contract"
    /\ member <= Len(members_of(CurrentItem))
    /\ CurrentMember.kind \notin {"Init", "Function"}
    /\ member' = member + 1
    /\ UNCHANGED <<program, warnings, external_call_seen, current_function,
                   pc, item, storage_fields, stack, runs, trace,
                   function_start, contract_start, run_start>>

\* the loop is over: analyze_contract returns to analyze_program
ReturnFromAnalyzeContract ==
    /\ pc = "analyze_contract"
    /\ member > Len(members_of(CurrentItem))
    /\ pc' = "analyze_program"
    /\ item' = item + 1
    /\ member' = 0
    /\ storage_fields' = {}
    /\ UNCHANGED <<program, warnings, external_call_seen, current_function,
                   stack, runs, trace, function_start, contract_start,
                   run_start>>

(***************************************************************************)
(* analyze_function: the traversal of the body.                            *)
(***************************************************************************)
\* analyze_statement on the next pending statement
VisitStatement ==
    /\ pc = "analyze_function"
    /\ stack # <<>>
    /\ Head(stack).node.kind \in StatementKinds
    /\ stack' = analyze_statement(Head(stack).node, Head(stack).span)
                    \o Tail(stack)
    /\ UNCHANGED <<program, warnings, external_call_seen, current_function,
                   pc, item, member, storage_fields, runs, trace,
                   function_start, contract_start, run_start>>

\* analyze_expression on the next pending expression
VisitExpression ==
    /\ pc = "analyze_function"
    /\ stack # <<>>
    /\ Head(stack).node.kind \notin StatementKinds
    /\ Store(analyze_expression(analyzer, Head(stack).node, Head(stack).span))
    /\ stack' = expression_children(Head(stack).node, Head(stack).span)
                    \o Tail(stack)
    /\ trace' = Append(trace, Head(stack))
    /\ UNCHANGED <<program, pc, item, member, storage_fields, runs,
                   function_start, contract_start, run_start>>

\* the body is traversed: analyze_function returns to its caller
ReturnFromAnalyzeFunction ==
    /\ pc = "analyze_function"
    /\ stack = <<>>
    /\ Store(exit_function(analyzer))
    /\ IF member = 0
       THEN pc' = "analyze_program" /\ item' = item + 1 /\ member' = member
       ELSE pc' = "analyze_contract" /\ item' = item /\ member' = member + 1
    /\ UNCHANGED <<program, storage_fields, stack, runs, trace,
                   function_start, contract_start, run_start>>

Next ==
    \/ CallAnalyzeProgram
    \/ ItemContract
    \/ ItemFunction
    \/ ItemOther
    \/ ReturnFromAnalyzeProgram
    \/ MemberInit
    \/ MemberFunction
    \/ MemberOther
    \/ ReturnFromAnalyzeContract
    \/ VisitStatement
    \/ VisitExpression
    \/ ReturnFromAnalyzeFunction

Spec == Init /\ [][Next]_vars

(***************************************************************************)
(* Properties.                                                             *)
(***************************************************************************)
CountKind(ws, k) == Cardinality({i \in 1..Len(ws) : ws[i].kind = k})
From(ws, n) == SubSeq(ws, n + 1, Len(ws))
Added == From(warnings', Len(warnings))

\* `self.<field> = e`
IsSelfFieldAssign(n) ==
    /\ n.kind = "Binary"
    /\ n.op = "Assign"
    /\ n.kids[1].kind = "FieldAccess"
    /\ n.kids[1].kids[1] = Identifier("self")

\* a call whose callee is a field access on an identifier other than `self`
IsQualifyingCall(n) ==
    /\ n.kind = "Call"
    /\ n.kids[1].kind = "FieldAccess"
    /\ n.kids[1].kids[1].kind = "Identifier"
    /\ n.kids[1].kids[1] # Identifier("self")

QualifyingCallVisited ==
    \E i \in 1..Len(trace) : IsQualifyingCall(trace[i].node)

VisitingExpression ==
    /\ pc = "analyze_function"
    /\ stack # <<>>
    /\ Head(stack).node.kind \notin StatementKinds

InFunction == pc = "analyze_function"

CallThenAssign ==
    <<FunctionItem(Function(n_transfer, <<Expr(ExternalCall), SetBalance>>))>>
AssignThenCall ==
    <<FunctionItem(Function(n_transfer, <<SetBalance, Expr(ExternalCall)>>))>>

\* C1: a step of the analysis appends a PotentialReentrancy warning exactly
\* when it visits a node `self.<field> = e` and a qualifying external call
\* was visited strictly earlier in the traversal of the same function (then
\* it appends one, with the node's span); so `other.call(); self.balance = 1`
\* ends with exactly one such warning and `self.balance = 1; other.call()`
\* with none.
C1_ReentrancyIffEarlierCall ==
    /\ [][LET flagged ==
                  /\ VisitingExpression
                  /\ IsSelfFieldAssign(Head(stack).node)
                  /\ QualifyingCallVisited
          IN  /\ CountKind(Added, "PotentialReentrancy")
                    = IF flagged THEN 1 ELSE 0
              /\ flagged =>
                    \E i \in 1..Len(Added) :
                        Added[i] = PotentialReentrancy(Head(stack).span)]_vars
    /\ [](pc = "idle" /\ runs = 1 =>
             /\ program = CallThenAssign =>
                   CountKind(warnings, "PotentialReentrancy") = 1
             /\ program = AssignThenCall =>
                   CountKind(warnings, "PotentialReentrancy") = 0)

C1_Witness ==
    /\ program = CallThenAssign
    /\ pc = "idle"
    /\ runs = 1
    /\ warnings = <<PotentialReentrancy(<<1, 2, 1>>)>>

IsArithmetic(n) == n.kind = "Binary" /\ n.op \in {"Add", "Sub", "Mul"}
ArithmeticVisited == {i \in 1..Len(trace) : IsArithmetic(trace[i].node)}
HasSafePrefix(name) ==
    starts_with(name, checked_) \/ starts_with(name, safe_)

\* C4: throughout the analysis of a function, the UncheckedArithmetic
\* warnings emitted for it so far are as many as the Add/Sub/Mul nodes visited
\* so far when the function's name starts with neither `checked_` nor
\* `safe_`, and none when it does; no step outside a function's traversal
\* emits one.
C4_UncheckedArithmeticCount ==
    /\ [](InFunction =>
            CountKind(From(warnings, function_start), "UncheckedArithmetic")
                = IF HasSafePrefix(CurrentFunction.name)
                  THEN 0
                  ELSE Cardinality(ArithmeticVisited))
    /\ [][~VisitingExpression =>
            CountKind(Added, "UncheckedArithmetic") = 0]_vars

C4_Witness ==
    /\ Len(program) = 2
    /\ program[1] = FunctionItem(Function(checked_ \o <<"a", "d", "d">>,
                                          <<Expr(x_plus_y)>>))
    /\ program[2] = FunctionItem(Function(<<"a", "d", "d">>, <<Expr(x_plus_y)>>))
    /\ pc = "idle"
    /\ runs = 1
    /\ warnings = <<UncheckedArithmetic("Add", <<2, 1, 1>>)>>

\* C5: the reentrancy flag is false when the traversal of a function body
\* starts, stays true once it is true until that traversal ends, and a
\* PotentialReentrancy warning is only ever emitted after a qualifying call
\* visited in the same function.
C5_FlagFunctionScoped ==
    [][/\ (~InFunction /\ InFunction') => ~external_call_seen'
       /\ (InFunction /\ InFunction' /\ external_call_seen) => external_call_seen'
       /\ CountKind(Added, "PotentialReentrancy") > 0 =>
             (InFunction /\ QualifyingCallVisited /\ external_call_seen)]_vars

\* the second function assigns `self.balance` after the first one made an
\* external call, and no warning was emitted
C5_Witness ==
    /\ Len(program) = 2
    /\ program[1] = AssignThenCall[1]
    /\ program[2] = FunctionItem(Function(n_transfer, <<SetBalance>>))
    /\ pc = "analyze_function"
    /\ item = 2
    /\ stack = <<>>
    /\ \E i \in 1..Len(trace) : IsSelfFieldAssign(trace[i].node)
    /\ ~external_call_seen
    /\ warnings = <<>>

InContract ==
    \/ pc = "analyze_contract"
    \/ pc = "analyze_function" /\ member > 0

\* the warnings emitted so far for the contract being analyzed
ContractWarnings == From(warnings, contract_start)

InitMembers(contract) ==
    {j \in 1..Len(contract.members) : contract.members[j].kind = "Init"}

\* the field names the Storage members of a contract declare
DeclaredFields(contract) ==
    {f \in {"balance", "owner", "total"} :
        \E j \in 1..Len(contract.members) :
            /\ contract.members[j].kind = "Storage"
            /\ \E i \in 1..Len(contract.members[j].fields) :
                  contract.members[j].fields[i] = f}

\* a top-level statement of the body is `self.<f> = <anything>`
AssignedAtTopLevel(body, f) ==
    \E k \in 1..Len(body) :
        /\ body[k].kind = "Expr"
        /\ IsSelfFieldAssign(body[k].kids[1])
        /\ body[k].kids[1].kids[1].name = f

Naming(ws, f) ==
    {i \in 1..Len(ws) :
        /\ ws[i].kind = "UninitializedVariable"
        /\ ws[i].payload = <<"Storage field '", f, "'">>}

\* C2: once the only Init member of a contract is handled, the contract's
\* warnings hold exactly one UninitializedVariable warning for each distinct
\* declared field that no top-level statement `self.<field> = <anything>` of
\* the constructor body assigns, none for a field so assigned, and no other
\* UninitializedVariable warning.
C2_OneWarningPerUnassignedField ==
    (/\ InContract
     /\ Cardinality(InitMembers(CurrentItem)) = 1
     /\ \A j \in InitMembers(CurrentItem) : member > j)
    => LET body ==
               CurrentItem.members[CHOOSE j \in InitMembers(CurrentItem) : TRUE]
                   .func.body
           unassigned ==
               {f \in DeclaredFields(CurrentItem) : ~AssignedAtTopLevel(body, f)}
       IN  /\ \A f \in DeclaredFields(CurrentItem) :
                 Cardinality(Naming(ContractWarnings, f))
                     = IF f \in unassigned THEN 1 ELSE 0
           /\ CountKind(ContractWarnings, "UninitializedVariable")
                 = Cardinality(unassigned)

\* fields {balance, owner}, a constructor doing only `self.balance = 0`
C2_Witness ==
    /\ program = <<ContractItem(<<Storage1,
                                  InitMember(Function(n_init, <<SetBalance>>))>>)>>
    /\ pc = "analyze_contract"
    /\ member = 3
    /\ warnings = <<UninitializedVariable("owner", <<1, 2, 1>>)>>

\* C10: the step that handles an Init member appends only
\* UninitializedVariable warnings, leaves the reentrancy flag and the
\* current function name unchanged and starts no traversal of the body.
C10_InitBodyNotVisited ==
    [][(pc = "analyze_contract"
        /\ member <= Len(CurrentItem.members)
        /\ CurrentItem.members[member].kind = "Init")
       => /\ \A i \in 1..Len(Added) : Added[i].kind = "UninitializedVariable"
          /\ SubSeq(warnings', 1, Len(warnings)) = warnings
          /\ external_call_seen' = external_call_seen
          /\ current_function' = current_function
          /\ pc' = "analyze_contract"
          /\ stack' = <<>>
          /\ trace' = trace]_vars

\* a constructor `other.call(); self.balance = 0; self.balance = self.balance + x`
\* was handled after a method that made an external call
C10_Witness ==
    /\ pc = "analyze_contract"
    /\ member = 3
    /\ Len(CurrentItem.members) >= 2
    /\ CurrentItem.members[1] = FunctionMember(f_withdraw)
    /\ CurrentItem.members[2] =
           InitMember(Function(n_init,
                               <<Expr(ExternalCall), SetBalance, AddBalance>>))
    /\ external_call_seen
    /\ current_function = None
    /\ runs = 1

\* the warning lists a fresh analyzer can produce for a program
FreshOutputs(prog) == {a.warnings : a \in analyze_program({new}, prog)}

\* C7: warnings are only ever appended, and when an analyze_program call
\* returns, the warnings it appended are a list that a fresh analyzer
\* produces for the program, whatever state earlier calls left behind.
C7_RunsConcatenate ==
    /\ [][SubSeq(warnings', 1, Len(warnings)) = warnings]_vars
    /\ [](pc = "idle" /\ runs >= 1 =>
             From(warnings, run_start) \in FreshOutputs(program))

\* the second run ended; the first had left warnings and a set flag behind
C7_Witness ==
    /\ pc = "idle"
    /\ runs = 2
    /\ external_call_seen
    /\ run_start > 0
    /\ Len(warnings) = 2 * run_start
    /\ CountKind(warnings, "PotentialReentrancy") > 0

ContractDone ==
    pc = "analyze_contract" /\ member > Len(CurrentItem.members)

\* C3: when the analysis of a contract without an Init member ends, the
\* contract's warnings hold one UninitializedVariable warning for each
\* distinct declared field.
C3_NoInitReportsEveryField ==
    (ContractDone /\ InitMembers(CurrentItem) = {})
    => \A f \in DeclaredFields(CurrentItem) :
          Cardinality(Naming(ContractWarnings, f)) = 1

\* C6: among the warnings of a contract, every UninitializedVariable warning
\* comes before every warning of the contract's Function members (which are
\* the UncheckedArithmetic and PotentialReentrancy warnings), whatever the
\* order of the members.
C6_UninitializedBatchFirst ==
    InContract
    => \A i, j \in 1..Len(ContractWarnings) :
          (/\ ContractWarnings[i].kind = "UninitializedVariable"
           /\ ContractWarnings[j].kind # "UninitializedVariable")
          => i < j

\* a call whose callee is a field access on anything but the identifier `self`
IsCallThroughOtherObject(n) ==
    /\ n.kind = "Call"
    /\ n.kids[1].kind = "FieldAccess"
    /\ n.kids[1].kids[1] # Identifier("self")

\* C8: once a call whose callee is a field access on an object other than
\* the receiver was visited in a function, the reentrancy flag is set, and a
\* `self.<field> = e` visited after it in that function is flagged.
C8_AnyOtherObjectSetsFlag ==
    InFunction
    => \A i \in 1..Len(trace) :
          IsCallThroughOtherObject(trace[i].node)
          => /\ external_call_seen
             /\ \A j \in (i + 1)..Len(trace) :
                   IsSelfFieldAssign(trace[j].node)
                   => PotentialReentrancy(trace[j].span)
                          \in {warnings[k] : k \in 1..Len(warnings)}

\* the position of a field's first declaration in the contract
DeclarationOrder(contract) ==
    LET decls == UNION {{<<j, i>> : i \in 1..Len(contract.members[j].fields)} :
                           j \in {j \in 1..Len(contract.members) :
                                     contract.members[j].kind = "Storage"}}
        first(f) == CHOOSE d \in decls :
                        /\ contract.members[d[1]].fields[d[2]] = f
                        /\ \A e \in decls :
                              contract.members[e[1]].fields[e[2]] = f
                              => (d[1] < e[1] \/ (d[1] = e[1] /\ d[2] <= e[2]))
    IN  [f \in DeclaredFields(contract) |-> first(f)]

Earlier(d, e) == d[1] < e[1] \/ (d[1] = e[1] /\ d[2] < e[2])

\* C9: a program has one warning list (what a fresh analyzer produced is
\* what any fresh analyzer produces), and the UninitializedVariable warnings
\* of a constructor come out in the declaration order of the fields.
C9_DeterministicDeclarationOrder ==
    /\ (pc = "idle" /\ runs = 1) => FreshOutputs(program) = {warnings}
    /\ (InContract /\ Cardinality(InitMembers(CurrentItem)) = 1)
       => \A i, j \in 1..Len(ContractWarnings) :
             (/\ i < j
              /\ ContractWarnings[i].kind = "UninitializedVariable"
              /\ ContractWarnings[j].kind = "UninitializedVariable")
             => Earlier(DeclarationOrder(CurrentItem)[ContractWarnings[i].payload[2]],
                        DeclarationOrder(CurrentItem)[ContractWarnings[j].payload[2]])

====
